---- MODULE Spec2Model ----
(***************************************************************************)
(* Retrieval chess engine and its concurrent benchmark:                    *)
(*   - RetrievalEngine.lookup / get_move      (src/retrieval_engine.py)    *)
(*   - run_benchmark_endpoint.run, the run's event log and the stream      *)
(*     readers                                 (src/api/index.py)          *)
(*   - run_benchmark, the batch orchestrator   (src/benchmark.py)          *)
(*                                                                         *)
(* Three specifications share the variables:                               *)
(*   SpecMove   one RetrievalEngine answering get_move calls               *)
(*   Spec       one benchmark run (API endpoint or batch), its game tasks  *)
(*   SpecStream one API run together with concurrent stream readers        *)
(***************************************************************************)
EXTENDS Integers, Sequences, FiniteSets, TLC

VARIABLES
    \* ---- RetrievalEngine (SpecMove)
    board,        \* the position get_move is asked about: its set of legal moves
    hits,         \* self.hits
    misses,       \* self.misses
    call,         \* the last get_move call: its inputs and what came out
    \* ---- one benchmark run (Spec, SpecStream)
    mode,         \* "api" (run_benchmark_endpoint) or "batch" (run_benchmark)
    num_games,    \* req.num_games / num_games
    workers,      \* req.workers / workers
    registry,     \* _runs: the set of run ids that have a log
    log,          \* _runs[run_id]: the run's event log
    task,         \* per submitted game: "none", "queued", "running", "returned", "raised"
    outcome,      \* per game: the dict _run_single_game returned (None until then)
    finished,     \* futures in the order they completed (what as_completed yields)
    taken,        \* how many futures the as_completed loop has consumed
    pc,           \* where the orchestrator thread is
    results_list, \* results_list / games: index-stable list of game dicts
    acc,          \* run_benchmark's running totals
    report,       \* the report dict built by the aggregation step
    disk,         \* the report files written under benchmarks/
    failure,      \* the exception that left the orchestrator, if any
    readers,      \* per stream_benchmark generator: its run id, cursor and output
    session,      \* per play_game call: its locals (board, moves, move, ...) and position
    engine,       \* per RetrievalEngine instance of a game: its hits and misses
    encBoard,     \* the board handed to encode_board
    encoded       \* per caller of encode_board: what its call returned (None before)

moveVars   == <<board, hits, misses, call>>
runVars    == <<mode, num_games, workers, registry, log, task, outcome, finished,
                taken, pc, results_list, acc, report, disk, failure>>
gameVars   == <<session, engine>>
encVars    == <<encBoard, encoded>>
vars       == <<board, hits, misses, call, mode, num_games, workers, registry, log,
                task, outcome, finished, taken, pc, results_list, acc, report, disk,
                failure, readers, session, engine, encBoard, encoded>>

\* Python's None, where a record is expected
None == [none |-> TRUE]

(***************************************************************************)
(* Bounds of the model.                                                    *)
(***************************************************************************)
NumMoves   == 3      \* moves of the universe a position's legal moves are drawn from
MaxCalls   == 3      \* get_move calls made on one engine
MaxGames   == 3      \* largest num_games requested
MaxPly     == 4      \* turns of play_game's loop followed in one game
MaxPawns   == 1      \* pawns set beside the king or the pawn a board is built around
MaxWorkers == 2      \* largest workers requested
StreamGames == 2     \* largest num_games of a run that is streamed
NumReaders == 2      \* concurrent stream_benchmark generators
LiveGames  == 1      \* largest num_games of a run followed to its end under fairness
LiveReaders == 2     \* stream_benchmark generators open in such a run
MantissaBits == 4    \* significant bits kept by a float (CPython keeps 53)
FractionBits == 2    \* the finest float step is 2^-FractionBits ms, one tick

(***************************************************************************)
(* Positions and moves.  A position is abstracted to what get_move reads   *)
(* of it: board.legal_moves.  A move is python-chess's Move(from, to); the *)
(* index stores it as the text move.uci() and get_move parses it back.     *)
(***************************************************************************)
Move(f, t) == [from_square |-> f, to_square |-> t]

NullMove == Move(0, 0)

\* the universe of moves: the k-th goes from square k to square k + 1
Moves == {Move(k, k + 1) : k \in 1..NumMoves}

Positions == SUBSET Moves

\* ingest.py: "best_move": move.uci()  -- the text form, here <<from, to>>
uci(m) == <<m.from_square, m.to_square>>

\* chess.Move.from_uci: "0000" is the null move, otherwise from/to squares
from_uci(u) == IF u = <<0, 0>> THEN NullMove ELSE Move(u[1], u[2])

UciTexts == {uci(m) : m \in Moves \cup {NullMove}}

(***************************************************************************)
(* The similarity index.  query_points(limit=1).points is either empty or  *)
(* one point with a similarity score (in hundredths) and a payload.        *)
(***************************************************************************)
Threshold == 80

Similarities == {79, 80, 95}

NoResult == <<>>

IndexResponses ==
    {NoResult} \cup
    {<<[score |-> s, best_move |-> u]>> : s \in Similarities, u \in UciTexts}

\* a plausible slip: strict comparison with the threshold
lookup_strict(results, threshold) ==
    IF results = <<>> THEN None
    ELSE LET top == results[1] IN
         IF top.score > threshold
         THEN [best_move |-> top.best_move, sim |-> top.score] ELSE None

\* RetrievalEngine.lookup: None, or (best_move, similarity)
lookup(results, threshold) ==
    IF results = <<>> THEN None
    ELSE LET top == results[1] IN
         IF top.score >= threshold
         THEN [best_move |-> top.best_move, sim |-> top.score] ELSE None

\* a plausible slip: the recorded move is returned without the legality check
get_move_unchecked(legal, h, m, results) ==
    LET result == lookup(results, Threshold) IN
    IF result # None
    THEN {[outcome |-> "return", move |-> from_uci(result.best_move),
           hits |-> h + 1, misses |-> m]}
    ELSE IF legal = {}
         THEN {[outcome |-> "raise", move |-> None, hits |-> h, misses |-> m + 1]}
         ELSE {[outcome |-> "return", move |-> mv, hits |-> h, misses |-> m + 1] :
                  mv \in legal}

\* a plausible slip: hits is counted as soon as a match is accepted, before the
\* legality check
get_move_hit_before_check(legal, h, m, results) ==
    LET result == lookup(results, Threshold) IN
    IF result # None /\ from_uci(result.best_move) \in legal
    THEN {[outcome |-> "return", move |-> from_uci(result.best_move),
           hits |-> h + 1, misses |-> m]}
    ELSE LET h1 == IF result # None THEN h + 1 ELSE h IN
         IF legal = {}
         THEN {[outcome |-> "raise", move |-> None, hits |-> h1, misses |-> m + 1]}
         ELSE {[outcome |-> "return", move |-> mv, hits |-> h1, misses |-> m + 1] :
                  mv \in legal}

\* RetrievalEngine.get_move: every way the call can end (random.choice picks any
\* legal move; on an empty list it raises IndexError, after misses += 1)
get_move(legal, h, m, results) ==
    LET result == lookup(results, Threshold) IN
    IF result # None /\ from_uci(result.best_move) \in legal
    THEN {[outcome |-> "return", move |-> from_uci(result.best_move),
           hits |-> h + 1, misses |-> m]}
    ELSE IF legal = {}
         THEN {[outcome |-> "raise", move |-> None, hits |-> h, misses |-> m + 1]}
         ELSE {[outcome |-> "return", move |-> mv, hits |-> h, misses |-> m + 1] :
                  mv \in legal}

NoCall == [made |-> FALSE]

\* a fresh RetrievalEngine(): hits = misses = 0, asked about no position yet
MoveInit ==
    /\ board = {}
    /\ hits = 0
    /\ misses = 0
    /\ call = NoCall

\* one get_move(board) call: any position, any index response
GetMove ==
    /\ hits + misses < MaxCalls
    /\ \E position \in Positions, results \in IndexResponses :
       \E r \in get_move(position, hits, misses, results) :
          /\ board' = position
          /\ hits' = r.hits
          /\ misses' = r.misses
          /\ call' = [made |-> TRUE, legal |-> position, results |-> results,
                      outcome |-> r.outcome, move |-> r.move,
                      hits0 |-> hits, misses0 |-> misses]
    /\ UNCHANGED <<runVars, readers, gameVars, encVars>>

(***************************************************************************)
(* Game tasks.  _run_single_game(game_num) either returns play_game's dict *)
(* or raises (RetrievalEngine() or an index query failing).  The dict is   *)
(* an input of the orchestrators: one of a few representative games.       *)
(* Latencies are whole milliseconds; the pgn text is left out.             *)
(* A pool worker keeps taking queued games until none is left, also while  *)
(* the orchestrator is leaving the `with` block (shutdown(wait=True)).     *)
(* as_completed hands the futures over in the order they completed, which  *)
(* `finished` records.                                                     *)
(***************************************************************************)
Game(res, why, n, sf, rt, h, m) ==
    [result |-> res, reason |-> why, moves |-> n, avg_sunfish_ms |-> sf,
     avg_retrieval_ms |-> rt, hits |-> h, misses |-> m]

\* avg_sunfish_ms and avg_retrieval_ms are floats (_avg_ms), held in ticks
GameDicts ==
    { Game("1-0", "checkmate", 3, 9, 7, 1, 0),
      Game("0-1", "checkmate", 4, 15, 9, 0, 2),
      Game("1/2-1/2", "stalemate", 6, 18, 8, 2, 1),
      Game("*", "unknown", 1, 0, 0, 0, 0) }

StreamDicts ==
    { Game("1-0", "checkmate", 3, 9, 7, 1, 0),
      Game("*", "unknown", 1, 0, 0, 0, 0) }

ResultCodes == {"1-0", "0-1", "1/2-1/2", "*"}

\* game numbers: game_num = i + 1 for Python index i; the model indexes by game_num
GameNums == 1..num_games

Running == {i \in GameNums : task[i] = "running"}

Done(i) == task[i] \in {"returned", "raised"}

\* a pool worker takes the next queued work item (FIFO), at most `workers` at once
TaskStart(i) ==
    /\ task[i] = "queued"
    /\ \A j \in GameNums : j < i => task[j] # "queued"
    /\ Cardinality(Running) < workers
    /\ task' = [task EXCEPT ![i] = "running"]
    /\ UNCHANGED <<moveVars, gameVars, encVars, readers, mode, num_games, workers, registry, log,
                   outcome, finished, taken, pc, results_list, acc, report,
                   disk, failure>>

\* play_game returns its dict; the future completes
TaskReturn(i) ==
    /\ task[i] = "running"
    /\ \E g \in GameDicts : outcome' = [outcome EXCEPT ![i] = g]
    /\ task' = [task EXCEPT ![i] = "returned"]
    /\ finished' = Append(finished, i)
    /\ UNCHANGED <<moveVars, gameVars, encVars, readers, mode, num_games, workers, registry, log,
                   taken, pc, results_list, acc, report, disk, failure>>

\* the same step in a streamed run, where the games are drawn from StreamDicts
StreamTaskReturn(i) ==
    /\ task[i] = "running"
    /\ \E g \in StreamDicts : outcome' = [outcome EXCEPT ![i] = g]
    /\ task' = [task EXCEPT ![i] = "returned"]
    /\ finished' = Append(finished, i)
    /\ UNCHANGED <<moveVars, gameVars, encVars, readers, mode, num_games, workers, registry, log,
                   taken, pc, results_list, acc, report, disk, failure>>

\* an exception leaves _run_single_game; the future completes with it
TaskRaise(i) ==
    /\ task[i] = "running"
    /\ task' = [task EXCEPT ![i] = "raised"]
    /\ finished' = Append(finished, i)
    /\ UNCHANGED <<moveVars, gameVars, encVars, readers, mode, num_games, workers, registry, log,
                   outcome, taken, pc, results_list, acc, report, disk,
                   failure>>

(***************************************************************************)
(* Arithmetic of the report.                                               *)
(***************************************************************************)
RECURSIVE SumSeq(_)
SumSeq(s) == IF s = <<>> THEN 0 ELSE s[1] + SumSeq(Tail(s))

\* Python round(a / b) for a >= 0, b > 0: to nearest, ties to even
RoundDiv(a, b) ==
    LET q == a \div b
        r == a % b
    IN IF 2 * r < b THEN q
       ELSE IF 2 * r > b THEN q + 1
       ELSE IF q % 2 = 0 THEN q ELSE q + 1

\* Floats.  _avg_ms returns sum(times) / len(times) * 1000, a float; the
\* orchestrators add these up, divide by n and round.  A float is held as a
\* whole number of ticks with at most MantissaBits significant bits; every
\* operation rounds its exact result to the nearest such number, ties to even.
TicksPerMs == 2 ^ FractionBits

\* the spacing of the floats around x: a power of two, one tick at the least
RECURSIVE spacing(_, _)
spacing(x, u) == IF x < (2 ^ MantissaBits) * u THEN u ELSE spacing(x, 2 * u)

\* the float nearest to num / den
nearest_float(num, den) ==
    LET u == spacing(num \div den, 1) IN RoundDiv(num, den * u) * u

\* a + b on floats
float_add(a, b) == nearest_float(a + b, 1)

\* a / n on a float and an int
float_div(a, n) == nearest_float(a, n)

\* round(x): the nearest whole number of ms, ties to even
round(x) == RoundDiv(x, TicksPerMs)

\* sum(...) over floats: ((0 + s[1]) + s[2]) + ..., in the order of the sequence
RECURSIVE float_sum(_)
float_sum(s) ==
    IF s = <<>> THEN 0
    ELSE float_add(float_sum(SubSeq(s, 1, Len(s) - 1)), s[Len(s)])

\* a plausible slip: the rate is cut to one decimal instead of rounded
HitRateTenths_truncated(h, total) == IF total # 0 THEN (h * 1000) \div total ELSE 0

\* round((hits / total * 100) if total else 0, 1), in tenths of a percent
HitRateTenths(h, total) == IF total # 0 THEN RoundDiv(h * 1000, total) ELSE 0

\* sum(g[field] for g in results_list if g), per field
Field(rl, f) == [i \in 1..Len(rl) |-> IF rl[i] = None THEN 0 ELSE f[rl[i]]]

Count(rl, code) ==
    Cardinality({i \in 1..Len(rl) : rl[i] # None /\ rl[i].result = code})

\* the report dict of run_benchmark_endpoint.run (needs n # 0: it divides by n)
ApiReport(rl, n, w) ==
    LET total_hits   == SumSeq(Field(rl, [g \in GameDicts |-> g.hits]))
        total_misses == SumSeq(Field(rl, [g \in GameDicts |-> g.misses]))
        total        == total_hits + total_misses
    IN [num_games |-> n,
        workers   |-> w,
        summary   |->
          [sunfish_wins     |-> Count(rl, "1-0"),
           retrieval_wins   |-> Count(rl, "0-1"),
           draws            |-> Count(rl, "1/2-1/2"),
           avg_moves        |-> RoundDiv(SumSeq(Field(rl, [g \in GameDicts |-> g.moves])), n),
           avg_sunfish_ms   |->
               round(float_div(float_sum(Field(rl, [g \in GameDicts |-> g.avg_sunfish_ms])), n)),
           avg_retrieval_ms |->
               round(float_div(float_sum(Field(rl, [g \in GameDicts |-> g.avg_retrieval_ms])), n)),
           total_hits       |-> total_hits,
           total_misses     |-> total_misses,
           hit_rate_pct     |-> HitRateTenths(total_hits, total)],
        games     |-> rl]

\* run_benchmark's accumulators before the first game
Acc0 ==
    [results |-> [c \in ResultCodes |-> 0], total_moves |-> 0, total_sunfish_ms |-> 0,
     total_retrieval_ms |-> 0, total_hits |-> 0, total_misses |-> 0]

\* run_benchmark's loop body after games[idx] = game
Accumulate(a, game) ==
    [results            |-> [a.results EXCEPT ![game.result] = @ + 1],
     total_moves        |-> a.total_moves + game.moves,
     total_sunfish_ms   |-> float_add(a.total_sunfish_ms, game.avg_sunfish_ms),
     total_retrieval_ms |-> float_add(a.total_retrieval_ms, game.avg_retrieval_ms),
     total_hits         |-> a.total_hits + game.hits,
     total_misses       |-> a.total_misses + game.misses]

\* the report dict of run_benchmark (needs n # 0: it divides by num_games)
BatchReport(a, games, n, w) ==
    LET total == a.total_hits + a.total_misses IN
    [num_games |-> n,
     workers   |-> w,
     summary   |->
       [sunfish_wins     |-> a.results["1-0"],
        retrieval_wins   |-> a.results["0-1"],
        draws            |-> a.results["1/2-1/2"],
        avg_moves        |-> RoundDiv(a.total_moves, n),
        avg_sunfish_ms   |-> round(float_div(a.total_sunfish_ms, n)),
        avg_retrieval_ms |-> round(float_div(a.total_retrieval_ms, n)),
        total_hits       |-> a.total_hits,
        total_misses     |-> a.total_misses,
        hit_rate_pct     |-> HitRateTenths(a.total_hits, total)],
     games     |-> games]

(***************************************************************************)
(* The run's event log (api/index.py).                                     *)
(***************************************************************************)
RunId == "run-1"

UnknownId == "run-x"

ReportFile == "benchmark_ts.json"

GameEvent(idx, game) ==
    [game |-> idx, result |-> game.result, reason |-> game.reason, moves |-> game.moves]

DoneEvent(filename) == [done |-> TRUE, filename |-> filename]

ErrorEvent(message) == [done |-> TRUE, error |-> message]

\* events[seen].get("done")
IsDone(e) == "done" \in DOMAIN e

\* a plausible slip: the newest event is put first
prepend_event(events, e) == <<e>> \o events

\* _runs[run_id].append(e)
append_event(events, e) == Append(events, e)

\* a plausible slip: results are stored in completion order
store_by_arrival(rl, idx, k, game) == [rl EXCEPT ![k] = game]

\* results_list[idx] = game  (k: how many futures completed so far, this one included)
store_result(rl, idx, k, game) == [rl EXCEPT ![idx] = game]

\* a plausible slip: the list is allocated one slot short
Blank_short(n) == [i \in 1..(n - 1) |-> None]

\* [None] * n
Blank(n) == [i \in 1..n |-> None]

(***************************************************************************)
(* run_benchmark_endpoint and its thread `run` (api/index.py).             *)
(***************************************************************************)
\* POST /api/benchmarks/run: _runs[run_id] = [], the thread is started
ApiSubmit ==
    /\ mode = "api"
    /\ pc = "init"
    /\ registry' = registry \cup {RunId}
    /\ log' = <<>>
    /\ pc' = "start"
    /\ UNCHANGED <<moveVars, gameVars, encVars, readers, mode, num_games, workers, task, outcome,
                   finished, taken, results_list, acc, report, disk, failure>>

\* results_list = [None] * n; ThreadPoolExecutor(max_workers) raises ValueError
\* for max_workers <= 0, caught by run's except; otherwise all games are submitted
ApiOpenPool ==
    /\ mode = "api"
    /\ pc = "start"
    /\ results_list' = Blank(num_games)
    /\ IF workers <= 0
       THEN /\ log' = append_event(log, ErrorEvent("ValueError"))
            /\ pc' = "done"
            /\ UNCHANGED task
       ELSE /\ task' = [i \in GameNums |-> "queued"]
            /\ pc' = "collect"
            /\ UNCHANGED log
    /\ UNCHANGED <<moveVars, gameVars, encVars, readers, mode, num_games, workers, registry,
                   outcome, finished, taken, acc, report, disk, failure>>

\* a plausible slip: a failed game is reported with a done/error event and the
\* loop carries on
ApiCollect_report_and_continue ==
    /\ mode = "api"
    /\ pc = "collect"
    /\ taken < Len(finished)
    /\ LET idx == finished[taken + 1] IN
       IF task[idx] = "raised"
       THEN /\ log' = append_event(log, ErrorEvent("GameError"))
            /\ UNCHANGED <<results_list, pc>>
       ELSE /\ results_list' = store_result(results_list, idx, taken + 1, outcome[idx])
            /\ log' = append_event(log, GameEvent(idx, outcome[idx]))
            /\ UNCHANGED pc
    /\ taken' = taken + 1
    /\ UNCHANGED <<moveVars, gameVars, encVars, readers, mode, num_games, workers, registry, task,
                   outcome, finished, acc, report, disk, failure>>

\* one turn of `for future in as_completed(futures)`: future.result() either
\* re-raises the game's exception (leaving the loop) or gives the game dict
ApiCollect ==
    /\ mode = "api"
    /\ pc = "collect"
    /\ taken < Len(finished)
    /\ LET idx == finished[taken + 1] IN
       IF task[idx] = "raised"
       THEN /\ pc' = "unwind"
            /\ UNCHANGED <<results_list, log>>
       ELSE /\ results_list' = store_result(results_list, idx, taken + 1, outcome[idx])
            /\ log' = append_event(log, GameEvent(idx, outcome[idx]))
            /\ UNCHANGED pc
    /\ taken' = taken + 1
    /\ UNCHANGED <<moveVars, gameVars, encVars, readers, mode, num_games, workers, registry,
                   task, outcome, finished, acc, report, disk, failure>>

\* as_completed is exhausted and the `with` block is left normally
ApiLeavePool ==
    /\ mode = "api"
    /\ pc = "collect"
    /\ taken = num_games
    /\ pc' = "aggregate"
    /\ UNCHANGED <<moveVars, gameVars, encVars, readers, mode, num_games, workers, registry, log,
                   task, outcome, finished, taken, results_list, acc, report,
                   disk, failure>>

\* a plausible slip: run has no `except`, so the exception ends the thread and
\* nothing is appended
ApiUnwind_silent ==
    /\ mode = "api"
    /\ pc = "unwind"
    /\ \A i \in GameNums : Done(i)
    /\ pc' = "done"
    /\ UNCHANGED <<moveVars, gameVars, encVars, readers, mode, num_games, workers, registry,
                   log, task, outcome, finished, taken, results_list, acc, report,
                   disk, failure>>

\* the exception leaves the `with` block: shutdown(wait=True) waits for every
\* submitted game, then `except Exception` appends the error event
ApiUnwind ==
    /\ mode = "api"
    /\ pc = "unwind"
    /\ \A i \in GameNums : Done(i)
    /\ log' = append_event(log, ErrorEvent("GameError"))
    /\ pc' = "done"
    /\ UNCHANGED <<moveVars, gameVars, encVars, readers, mode, num_games, workers, registry,
                   task, outcome, finished, taken, results_list, acc, report,
                   disk, failure>>

\* the report dict is built; with n = 0 the averages divide by zero
ApiAggregate ==
    /\ mode = "api"
    /\ pc = "aggregate"
    /\ IF num_games = 0
       THEN /\ log' = append_event(log, ErrorEvent("ZeroDivisionError"))
            /\ pc' = "done"
            /\ UNCHANGED report
       ELSE /\ report' = ApiReport(results_list, num_games, workers)
            /\ pc' = "persist"
            /\ UNCHANGED log
    /\ UNCHANGED <<moveVars, gameVars, encVars, readers, mode, num_games, workers, registry,
                   task, outcome, finished, taken, results_list, acc, disk,
                   failure>>

\* a plausible slip: a failed write is swallowed and the run is announced anyway
ApiPersist_swallow_failure ==
    /\ mode = "api"
    /\ pc = "persist"
    /\ \/ /\ disk' = [name |-> ReportFile, content |-> report]
          /\ pc' = "announce"
          /\ UNCHANGED log
       \/ /\ log' = append_event(log, DoneEvent(ReportFile))
          /\ pc' = "done"
          /\ UNCHANGED disk
    /\ UNCHANGED <<moveVars, gameVars, encVars, readers, mode, num_games, workers, registry,
                   task, outcome, finished, taken, results_list, acc, report,
                   failure>>

\* BENCHMARKS_DIR.mkdir, path.write_text(json.dumps(report)): written, or OSError
ApiPersist ==
    /\ mode = "api"
    /\ pc = "persist"
    /\ \/ /\ disk' = [name |-> ReportFile, content |-> report]
          /\ pc' = "announce"
          /\ UNCHANGED log
       \/ /\ log' = append_event(log, ErrorEvent("OSError"))
          /\ pc' = "done"
          /\ UNCHANGED disk
    /\ UNCHANGED <<moveVars, gameVars, encVars, readers, mode, num_games, workers, registry,
                   task, outcome, finished, taken, results_list, acc, report,
                   failure>>

\* _runs[run_id].append({"done": True, "filename": path.name})
ApiAnnounce ==
    /\ mode = "api"
    /\ pc = "announce"
    /\ log' = append_event(log, DoneEvent(disk.name))
    /\ pc' = "done"
    /\ UNCHANGED <<moveVars, gameVars, encVars, readers, mode, num_games, workers, registry,
                   task, outcome, finished, taken, results_list, acc, report,
                   disk, failure>>

(***************************************************************************)
(* run_benchmark, the batch orchestrator (benchmark.py).  An exception is  *)
(* not caught: it leaves run_benchmark (pc = "crashed", failure names it). *)
(***************************************************************************)
\* games = [None] * num_games, the totals start at 0, the pool is created
\* (ValueError for workers <= 0) and every game is submitted
BatchOpenPool ==
    /\ mode = "batch"
    /\ pc = "init"
    /\ results_list' = Blank(num_games)
    /\ acc' = Acc0
    /\ IF workers <= 0
       THEN /\ failure' = "ValueError"
            /\ pc' = "crashed"
            /\ UNCHANGED task
       ELSE /\ task' = [i \in GameNums |-> "queued"]
            /\ pc' = "collect"
            /\ UNCHANGED failure
    /\ UNCHANGED <<moveVars, gameVars, encVars, readers, mode, num_games, workers, registry, log,
                   outcome, finished, taken, report, disk>>

\* one turn of `for future in tqdm(as_completed(futures))`
BatchCollect ==
    /\ mode = "batch"
    /\ pc = "collect"
    /\ taken < Len(finished)
    /\ LET idx == finished[taken + 1] IN
       IF task[idx] = "raised"
       THEN /\ pc' = "unwind"
            /\ UNCHANGED <<results_list, acc>>
       ELSE /\ results_list' = store_result(results_list, idx, taken + 1, outcome[idx])
            /\ acc' = Accumulate(acc, outcome[idx])
            /\ UNCHANGED pc
    /\ taken' = taken + 1
    /\ UNCHANGED <<moveVars, gameVars, encVars, readers, mode, num_games, workers, registry, log,
                   task, outcome, finished, report, disk, failure>>

\* as_completed is exhausted and the `with` block is left normally
BatchLeavePool ==
    /\ mode = "batch"
    /\ pc = "collect"
    /\ taken = num_games
    /\ pc' = "aggregate"
    /\ UNCHANGED <<moveVars, gameVars, encVars, readers, mode, num_games, workers, registry, log,
                   task, outcome, finished, taken, results_list, acc, report,
                   disk, failure>>

\* the game's exception leaves the `with` block (shutdown waits for every
\* submitted game) and then run_benchmark
BatchUnwind ==
    /\ mode = "batch"
    /\ pc = "unwind"
    /\ \A i \in GameNums : Done(i)
    /\ failure' = "GameError"
    /\ pc' = "crashed"
    /\ UNCHANGED <<moveVars, gameVars, encVars, readers, mode, num_games, workers, registry, log,
                   task, outcome, finished, taken, results_list, acc, report,
                   disk>>

\* the summary is printed (total_moves / num_games) and the report dict built
BatchAggregate ==
    /\ mode = "batch"
    /\ pc = "aggregate"
    /\ IF num_games = 0
       THEN /\ failure' = "ZeroDivisionError"
            /\ pc' = "crashed"
            /\ UNCHANGED report
       ELSE /\ report' = BatchReport(acc, results_list, num_games, workers)
            /\ pc' = "persist"
            /\ UNCHANGED failure
    /\ UNCHANGED <<moveVars, gameVars, encVars, readers, mode, num_games, workers, registry, log,
                   task, outcome, finished, taken, results_list, acc, disk>>

\* os.makedirs, json.dump(report, f): written, or OSError
BatchPersist ==
    /\ mode = "batch"
    /\ pc = "persist"
    /\ \/ /\ disk' = [name |-> ReportFile, content |-> report]
          /\ pc' = "done"
          /\ UNCHANGED failure
       \/ /\ failure' = "OSError"
          /\ pc' = "crashed"
          /\ UNCHANGED disk
    /\ UNCHANGED <<moveVars, gameVars, encVars, readers, mode, num_games, workers, registry, log,
                   task, outcome, finished, taken, results_list, acc, report>>

(***************************************************************************)
(* stream_benchmark.generate (api/index.py): one generator per reader.     *)
(*   events: "unset" before the first _runs.get, "log" when it holds the   *)
(*           run's list, "empty" when it holds the default []              *)
(*   seen:   the cursor;  yielded: everything the generator has yielded    *)
(***************************************************************************)
ReaderIds == 1..NumReaders

\* a plausible slip: the cursor moves past the event after the yielded one
advance_twice(seen) == seen + 2

\* seen += 1
advance(seen) == seen + 1

\* one turn of `while seen < len(events)`: yield events[seen]; return after a
\* done event, otherwise seen += 1
ReaderYield(r) ==
    /\ readers[r].pc = "loop"
    /\ readers[r].events = "log"
    /\ readers[r].seen < Len(log)
    /\ LET e == log[readers[r].seen + 1] IN
       readers' = [readers EXCEPT
                     ![r].yielded = Append(@, e),
                     ![r].seen = IF IsDone(e) THEN @ ELSE advance(@),
                     ![r].pc = IF IsDone(e) THEN "closed" ELSE "loop"]
    /\ UNCHANGED <<moveVars, gameVars, encVars, mode, num_games, workers, registry, log, task,
                   outcome, finished, taken, pc, results_list, acc, report,
                   disk, failure>>

\* nothing (more) to yield: await asyncio.sleep(0.5) where the generator has
\* been round the loop, then events = _runs.get(run_id, []) again
ReaderPoll(r) ==
    /\ readers[r].pc = "loop"
    /\ readers[r].events # "log" \/ readers[r].seen >= Len(log)
    /\ readers' = [readers EXCEPT
                     ![r].events = IF readers[r].run_id \in registry THEN "log" ELSE "empty"]
    /\ UNCHANGED <<moveVars, gameVars, encVars, mode, num_games, workers, registry, log, task,
                   outcome, finished, taken, pc, results_list, acc, report,
                   disk, failure>>

(***************************************************************************)
(* play_game (benchmark.py and play.py): one game, ply by ply.             *)
(* The rules engine (python-chess) is outside the repository.  A position  *)
(* is what the program reads of it: the legal moves, whether the side to   *)
(* move is in check (read only when there is no legal move), whether the   *)
(* material is insufficient, the halfmove clock (below 100, from 100, from *)
(* 150) and how often the position has occurred (below 3, from 3, from 5). *)
(* board.push leads to a position the rules engine decides: any of them    *)
(* the halfmove clock allows.  The clock and the occurrences are followed  *)
(* by class, so a few turns of the loop stand for a long game.             *)
(*   pc: "off"       no such game                                          *)
(*       "loop"      at `while not board.is_game_over()`                   *)
(*       "answered"  a move source has answered, at `if move is None`      *)
(*       "after"     the loop is left, at `result = board.result()`        *)
(*       "returned"  play_game returned;  "raised"  an exception left it   *)
(* asked and pushed record the requests made and the moves pushed.         *)
(***************************************************************************)
WHITE == TRUE

BLACK == FALSE

GameIds == {"g1", "g2"}

HalfmoveClocks == {0, 100, 150}

RepetitionCounts == {1, 3, 5}

LegalSets == {{}, {Move(1, 2)}, Moves}

\* the positions a board can be in, as far as play_game can tell them apart
BoardStates ==
    {b \in [legal : LegalSets, check : BOOLEAN, insufficient : BOOLEAN,
            halfmove : HalfmoveClocks, repetitions : RepetitionCounts] :
        /\ b.legal # {} => ~b.check
        /\ (b.legal = {} /\ b.check) => ~b.insufficient}

\* chess.Board()
StartBoard ==
    [legal |-> Moves, check |-> FALSE, insufficient |-> FALSE, halfmove |-> 0,
     repetitions |-> 1]

\* a few positions, for runs with several games: in play, mate, stalemate, and
\* in play with the fifty-move count reached
FewBoardStates ==
    {StartBoard,
     [StartBoard EXCEPT !.legal = {}, !.check = TRUE],
     [StartBoard EXCEPT !.legal = {}],
     [StartBoard EXCEPT !.halfmove = 100]}

is_checkmate(b) == b.legal = {} /\ b.check

is_stalemate(b) == b.legal = {} /\ ~b.check

is_insufficient_material(b) == b.insufficient

is_fifty_moves(b) == b.halfmove >= 100 /\ b.legal # {}

is_seventyfive_moves(b) == b.halfmove >= 150 /\ b.legal # {}

is_repetition(b) == b.repetitions >= 3

is_fivefold_repetition(b) == b.repetitions >= 5

\* board.is_game_over(): claim_draw is False, so the fifty-move count and a
\* threefold repetition do not end the game, seventy-five moves and a fivefold
\* repetition do
is_game_over(b) ==
    \/ is_checkmate(b)
    \/ is_insufficient_material(b)
    \/ is_stalemate(b)
    \/ is_seventyfive_moves(b)
    \/ is_fivefold_repetition(b)

\* board.result(): the side to move is the one mated
result(b, turn) ==
    IF is_checkmate(b) THEN (IF turn = WHITE THEN "0-1" ELSE "1-0")
    ELSE IF is_game_over(b) THEN "1/2-1/2"
    ELSE "*"

\* a plausible slip: the material test comes before the stalemate test
reason_of_material_first(b) ==
    IF is_checkmate(b) THEN "checkmate"
    ELSE IF is_insufficient_material(b) THEN "insufficient"
    ELSE IF is_stalemate(b) THEN "stalemate"
    ELSE IF is_fifty_moves(b) THEN "50-move"
    ELSE IF is_repetition(b) THEN "repetition"
    ELSE "unknown"

\* _reason(board)
reason_of(b) ==
    IF is_checkmate(b) THEN "checkmate"
    ELSE IF is_stalemate(b) THEN "stalemate"
    ELSE IF is_insufficient_material(b) THEN "insufficient"
    ELSE IF is_fifty_moves(b) THEN "50-move"
    ELSE IF is_repetition(b) THEN "repetition"
    ELSE "unknown"

\* _game_over_reason(board)
game_over_reason(b) ==
    IF is_checkmate(b) THEN "Checkmate"
    ELSE IF is_stalemate(b) THEN "Stalemate"
    ELSE IF is_insufficient_material(b) THEN "Insufficient material"
    ELSE IF is_fifty_moves(b) THEN "Fifty-move rule"
    ELSE IF is_repetition(b) THEN "Threefold repetition"
    ELSE "Unknown"

\* the halfmove clock after one more move: reset, one higher within its class,
\* or one higher into the next class
clock_follows(h, h2) ==
    \/ h2 = 0
    \/ h2 = h
    \/ h = 0 /\ h2 = 100
    \/ h = 100 /\ h2 = 150

\* sunfish_move(board, depth=4): a legal move, or None
sunfish_move(b) == b.legal \cup {None}

\* who is asked for the move: Sunfish for White; for Black the retrieval engine,
\* but in play.py only with --retrieval (Sunfish plays both sides otherwise)
move_source(runner, use_retrieval, turn) ==
    IF turn = WHITE THEN "sunfish"
    ELSE IF runner = "benchmark" \/ use_retrieval THEN "retrieval"
    ELSE "sunfish"

\* a plausible slip: one module-level engine serves every game
engine_shared(g) == "g1"

\* retrieval = RetrievalEngine() in _run_single_game: the game's own instance
engine_of(g) == g

NewEngine == [hits |-> 0, misses |-> 0]

NotPlayed ==
    [pc |-> "off", runner |-> "benchmark", use_retrieval |-> TRUE, board |-> StartBoard,
     turn |-> WHITE, moves |-> 0, pushed |-> 0, asked |-> <<>>, move |-> None,
     ret |-> None]

\* play_game entered: the locals before the loop
NewGame(runner, use_retrieval) ==
    [NotPlayed EXCEPT !.pc = "loop", !.runner = runner, !.use_retrieval = use_retrieval]

Request(g, source, answered) ==
    [turn |-> session[g].turn, source |-> source, over |-> is_game_over(session[g].board),
     answered |-> answered]

\* one turn of the loop up to `if move is None`: moves += 1, then the move
\* source of the side to move is asked; an index query that fails raises out of
\* get_move and out of play_game
GameAsk(g) ==
    /\ session[g].pc = "loop"
    /\ ~is_game_over(session[g].board)
    /\ session[g].moves < MaxPly
    /\ LET source == move_source(session[g].runner, session[g].use_retrieval, session[g].turn)
           e == engine_of(g)
       IN IF source = "sunfish"
          THEN /\ \E mv \in sunfish_move(session[g].board) :
                    session' = [session EXCEPT ![g].moves = @ + 1,
                                         ![g].move = mv,
                                         ![g].asked = Append(@, Request(g, source, mv # None)),
                                         ![g].pc = "answered"]
               /\ UNCHANGED engine
          ELSE \/ \E results \in IndexResponses :
                  \E r \in get_move(session[g].board.legal, engine[e].hits,
                                    engine[e].misses, results) :
                     /\ engine' = [engine EXCEPT ![e] = [hits |-> r.hits,
                                                         misses |-> r.misses]]
                     /\ session' = [session EXCEPT
                                   ![g].moves = @ + 1,
                                   ![g].move = r.move,
                                   ![g].asked = Append(@, Request(g, source,
                                                                  r.outcome = "return")),
                                   ![g].pc = IF r.outcome = "return" THEN "answered"
                                             ELSE "raised"]
               \/ /\ session' = [session EXCEPT
                                ![g].moves = @ + 1,
                                ![g].asked = Append(@, Request(g, source, FALSE)),
                                ![g].pc = "raised"]
                  /\ UNCHANGED engine
    /\ UNCHANGED <<moveVars, runVars, readers, encVars>>

\* the rest of the turn: `break` when the answer is None, else
\* node.add_variation(move); board.push(move), which hands the turn over
GamePush(g, successors) ==
    /\ session[g].pc = "answered"
    /\ IF session[g].move = None
       THEN session' = [session EXCEPT ![g].pc = "after"]
       ELSE \E b \in successors :
               /\ clock_follows(session[g].board.halfmove, b.halfmove)
               /\ session' = [session EXCEPT ![g].board = b,
                                    ![g].turn = ~@,
                                    ![g].pushed = @ + 1,
                                    ![g].move = None,
                                    ![g].pc = "loop"]
    /\ UNCHANGED <<moveVars, runVars, readers, encVars, engine>>

\* `while not board.is_game_over()` finds the game over
GameOver(g) ==
    /\ session[g].pc = "loop"
    /\ is_game_over(session[g].board)
    /\ session' = [session EXCEPT ![g].pc = "after"]
    /\ UNCHANGED <<moveVars, runVars, readers, encVars, engine>>

\* after the loop: result, reason and what play_game returns (benchmark.py: the
\* game dict, without its latencies and pgn text; play.py: the result code)
GameReturn(g) ==
    /\ session[g].pc = "after"
    /\ LET b == session[g].board
           e == engine_of(g)
       IN session' = [session EXCEPT
            ![g].pc = "returned",
            ![g].ret =
               IF session[g].runner = "benchmark"
               THEN [result |-> result(b, session[g].turn), reason |-> reason_of(b),
                     moves |-> session[g].moves, hits |-> engine[e].hits,
                     misses |-> engine[e].misses]
               ELSE [result |-> result(b, session[g].turn),
                     reason |-> game_over_reason(b)]]
    /\ UNCHANGED <<moveVars, runVars, readers, encVars, engine>>

(***************************************************************************)
(* encode_board (embeddings.py).                                           *)
(* A board is what encode_board reads of it: the piece map, the side to    *)
(* move, the castling rights, which of the four centre squares each colour *)
(* attacks and the number of legal moves; the last three are answers of    *)
(* the rules engine and are inputs here.  Squares are 0..63, a1 = 0,       *)
(* file = sq % 8, rank = sq // 8.  A number stored in the vector is kept   *)
(* as a fraction in lowest terms.  The numpy array is kept as its length,  *)
(* the value of the slots never assigned and the slots assigned;           *)
(* an allocation is the set of arrays it may hand back.                    *)
(***************************************************************************)
VECTOR_DIM == 832

PAWN == 1
KNIGHT == 2
BISHOP == 3
ROOK == 4
QUEEN == 5
KING == 6

PIECE_TYPES == <<PAWN, KNIGHT, BISHOP, ROOK, QUEEN, KING>>

SQUARES == 0..63

E4 == 28
D4 == 27
E5 == 36
D5 == 35

square_file(sq) == sq % 8

square_rank(sq) == sq \div 8

square(file_index, rank_index) == rank_index * 8 + file_index

\* range(a, b)
range(a, b) == a..(b - 1)

Piece(pt, color) == [piece_type |-> pt, color |-> color]

\* board.piece_at(s): BB_SQUARES[s] is a Python list lookup, so a negative s
\* counts from the end of the 64 squares
piece_at(b, s) ==
    LET sq == IF s < 0 THEN s + Cardinality(SQUARES) ELSE s
    IN IF sq \in DOMAIN b.piece_map THEN b.piece_map[sq] ELSE None

\* board.pieces(pt, color)
pieces(b, pt, color) == {sq \in DOMAIN b.piece_map : b.piece_map[sq] = Piece(pt, color)}

\* p and p.piece_type == chess.PAWN and p.color == color
is_pawn_of(p, color) == IF p = None THEN FALSE ELSE p = Piece(PAWN, color)

RECURSIVE GCD(_, _)
GCD(a, b) == IF b = 0 THEN a ELSE GCD(b, a % b)

\* the number n / d, d > 0
Ratio(n, d) ==
    LET m == IF n < 0 THEN -n ELSE n
        g == GCD(m, d)
    IN [num |-> n \div g, den |-> d \div g]

Zero == Ratio(0, 1)

One == Ratio(1, 1)

\* float(x) of a bool
float(x) == IF x THEN One ELSE Zero

Max(a, b) == IF a >= b THEN a ELSE b

\* a plausible slip: np.empty, whose slots hold whatever the memory held
np_empty(n) == {[len |-> n, fill |-> x] : x \in {Zero, One}}

\* np.zeros(n, dtype=np.float32)
np_zeros(n) == {[len |-> n, fill |-> Zero]}

\* the first 768 dims: vec[piece_offset[(piece_type, color)] + sq] = 1.0
piece_offset ==
    [color \in BOOLEAN |->
        IF color = WHITE THEN <<0, 64, 128, 192, 256, 320>>
        ELSE <<384, 448, 512, 576, 640, 704>>]

bitboard(b) ==
    LET at(sq) == piece_offset[b.piece_map[sq].color][b.piece_map[sq].piece_type] + sq
    IN [i \in {at(sq) : sq \in DOMAIN b.piece_map} |-> One]

\* where the strategic features start
o == 768

\* enumerate([chess.WHITE, chess.BLACK])
COLORS == <<WHITE, BLACK>>

\* material balance per piece type
material(b) ==
    [i \in {o + k : k \in 0..(Len(PIECE_TYPES) - 1)} |->
        LET pt == PIECE_TYPES[i - o + 1]
            w == Cardinality(pieces(b, pt, WHITE))
            bl == Cardinality(pieces(b, pt, BLACK))
        IN Ratio(w - bl, Max(w + bl, 1))]

\* which files have pawns
pawn_files(b) ==
    [i \in {o + 6 + (color_i - 1) * 8 + square_file(sq) :
               <<color_i, sq>> \in
                  {<<c, q>> \in (1..2) \X DOMAIN b.piece_map :
                      b.piece_map[q] = Piece(PAWN, COLORS[c])}} |-> One]

\* king position, when there is a king
king_position(b) ==
    LET present == {c \in 1..2 : pieces(b, KING, COLORS[c]) # {}}
        ksq(c) == CHOOSE k \in pieces(b, KING, COLORS[c]) : TRUE
    IN [i \in {o + 22 + (c - 1) * 2 : c \in present}
              \cup {o + 23 + (c - 1) * 2 : c \in present} |->
          LET c == ((i - o - 22) \div 2) + 1
          IN IF (i - o - 22) % 2 = 0 THEN Ratio(square_file(ksq(c)), 7)
             ELSE Ratio(square_rank(ksq(c)), 7)]

center == <<E4, D4, E5, D5>>

\* centre control: bool(board.attackers(color, sq))
center_control(b) ==
    [i \in {o + 26 + k : k \in 0..(2 * Len(center) - 1)} |->
        LET k == i - o - 26
        IN float(<<(k % 2 = 0), center[(k \div 2) + 1]>> \in b.attacked)]

\* castling rights
castling_rights(b) ==
    [i \in {o + 34, o + 35, o + 36, o + 37} |->
        IF i = o + 34 THEN float("K" \in b.castling)
        ELSE IF i = o + 35 THEN float("Q" \in b.castling)
        ELSE IF i = o + 36 THEN float("k" \in b.castling)
        ELSE float("q" \in b.castling)]

\* side to move, mobility, piece count
scalars(b) ==
    [i \in {o + 38, o + 39, o + 40} |->
        IF i = o + 38 THEN float(b.turn)
        ELSE IF i = o + 39 THEN Ratio(b.legal_count, 60)
        ELSE Ratio(Cardinality(DOMAIN b.piece_map), 32)]

\* open files: files with no pawn of either colour
open_files(b) ==
    [i \in {o + 41 + file : file \in range(0, 8)} |->
        LET file == i - o - 41
            has_pawn == \E rank \in range(0, 8) :
                           LET p == piece_at(b, square(file, rank))
                           IN IF p = None THEN FALSE ELSE p.piece_type = PAWN
        IN float(~has_pawn)]

\* is_passed after the scan of the pawn on sq: no pawn of the other colour on
\* the squares square(adj_file, r) examined
is_passed(b, sq, color) ==
    LET file == square_file(sq)
        rank == square_rank(sq)
    IN \A adj_file \in {file - 1, file, file + 1} :
          (0 <= adj_file /\ adj_file <= 7) =>
              \A r \in range(rank + (IF color = WHITE THEN 1 ELSE -7),
                             IF color = WHITE THEN 8 ELSE rank) :
                 ~is_pawn_of(piece_at(b, square(adj_file, r)), ~color)

\* passed pawns count per side
passed_pawns(b) ==
    [i \in {o + 49, o + 50} |->
        LET color == COLORS[i - o - 49 + 1]
        IN Ratio(Cardinality({sq \in pieces(b, PAWN, color) : is_passed(b, sq, color)}),
                 8)]

\* bishop pair
bishop_pair(b) ==
    [i \in {o + 51, o + 52} |->
        float(Cardinality(pieces(b, BISHOP, COLORS[i - o - 51 + 1])) >= 2)]

\* a plausible slip: Black's shield is looked for one rank too far back
shield_ranks_shifted(color) == IF color = WHITE THEN {1, 2} ELSE {6, 7}

\* shield_ranks = [1, 2] if color == chess.WHITE else [5, 6]
shield_ranks(color) == IF color = WHITE THEN {1, 2} ELSE {5, 6}

\* king pawn shield, when there is a king
king_shield(b) ==
    LET present == {c \in 1..2 : pieces(b, KING, COLORS[c]) # {}}
    IN [i \in {o + 53 + (c - 1) : c \in present} |->
          LET color == COLORS[i - o - 53 + 1]
              kfile == square_file(CHOOSE k \in pieces(b, KING, color) : TRUE)
          IN Ratio(Cardinality({<<f, r>> \in {kfile - 1, kfile, kfile + 1}
                                               \X shield_ranks(color) :
                                   /\ 0 <= f /\ f <= 7
                                   /\ is_pawn_of(piece_at(b, square(f, r)), color)}),
                   6)]

\* every slot encode_board assigns, with the value it is left with
assigned(b) ==
    king_shield(b) @@ bishop_pair(b) @@ passed_pawns(b) @@ open_files(b) @@ scalars(b)
    @@ castling_rights(b) @@ center_control(b) @@ king_position(b) @@ pawn_files(b)
    @@ material(b) @@ bitboard(b)

\* encode_board(board): every way the call can end.  An assignment outside the
\* array raises IndexError; otherwise vec.tolist() is returned
encode_board(b) ==
    LET slots == assigned(b) IN
    {IF \A i \in DOMAIN slots : 0 <= i /\ i < vec.len
     THEN [outcome |-> "return", len |-> vec.len, fill |-> vec.fill, slots |-> slots]
     ELSE [outcome |-> "raise", len |-> 0, fill |-> Zero, slots |-> <<>>] :
        vec \in np_zeros(VECTOR_DIM)}

\* element i (from 0) of a returned list
item(v, i) == IF i \in DOMAIN v.slots THEN v.slots[i] ELSE v.fill

\* the callers of encode_board: the lookups of the games of a run
Callers == GameIds

\* one call of encode_board on the board, by caller c
Encode(c) ==
    /\ encoded[c] = None
    /\ \E r \in encode_board(encBoard) : encoded' = [encoded EXCEPT ![c] = r]
    /\ UNCHANGED <<moveVars, runVars, readers, gameVars, encBoard>>

(***************************************************************************)
(* The boards encode_board is given.                                       *)
(***************************************************************************)
\* what the rules engine answers about a board
View(turn, castling, attacked, legal_count) ==
    [turn |-> turn, castling |-> castling, attacked |-> attacked,
     legal_count |-> legal_count]

QuietView == View(WHITE, {}, {}, 5)

StartView == View(WHITE, {"K", "Q", "k", "q"}, {}, 20)

BusyView ==
    View(BLACK, {"K", "q"}, {<<WHITE, E4>>, <<BLACK, E4>>, <<BLACK, D5>>, <<WHITE, D4>>}, 31)

\* the piece map with the pieces of `placed`, a set of <<square, piece>>
PieceMap(placed) ==
    [sq \in {pl[1] : pl \in placed} |-> (CHOOSE pl \in placed : pl[1] = sq)[2]]

Board(placed, view) ==
    [piece_map |-> PieceMap(placed), turn |-> view.turn, castling |-> view.castling,
     attacked |-> view.attacked, legal_count |-> view.legal_count]

\* where a pawn can stand
PawnSquares == {sq \in SQUARES : square_rank(sq) \in 1..6}

\* no pawn, or up to MaxPawns pawns side by side on one rank
PawnRows ==
    {{}} \cup {{q + j : j \in 0..(n - 1)} :
                 <<q, n>> \in {<<q1, n1>> \in PawnSquares \X (1..MaxPawns) :
                                 square_file(q1) + n1 - 1 <= 7}}

BackRank(pts, rank_index, color) ==
    {<<square(f - 1, rank_index), Piece(pts[f], color)>> : f \in 1..Len(pts)}

PawnRank(rank_index, color) ==
    {<<square(f, rank_index), Piece(PAWN, color)>> : f \in 0..7}

\* chess.Board()
StartPieces ==
    LET pts == <<ROOK, KNIGHT, BISHOP, QUEEN, KING, BISHOP, KNIGHT, ROOK>>
    IN BackRank(pts, 0, WHITE) \cup PawnRank(1, WHITE)
       \cup PawnRank(6, BLACK) \cup BackRank(pts, 7, BLACK)

\* boards of every kind of piece: the start, a middlegame, bare kings, a board
\* without kings, and one with a bishop pair
MiscBoards ==
    {Board(StartPieces, v) : v \in {StartView, BusyView}}
    \cup {Board({pl \in StartPieces : pl[1] % 3 # 1}, v) : v \in {QuietView, BusyView}}
    \cup {Board({<<4, Piece(KING, WHITE)>>, <<60, Piece(KING, BLACK)>>}, QuietView),
          Board({}, QuietView),
          Board({<<12, Piece(PAWN, WHITE)>>, <<51, Piece(QUEEN, BLACK)>>}, BusyView),
          Board({<<4, Piece(KING, WHITE)>>, <<60, Piece(KING, BLACK)>>,
                 <<2, Piece(BISHOP, WHITE)>>, <<5, Piece(BISHOP, WHITE)>>,
                 <<58, Piece(BISHOP, BLACK)>>}, QuietView)}

\* a king of either colour on any square, with a row of pawns of its colour
ShieldBoards ==
    {Board({<<kp[1], Piece(KING, kp[2])>>} \cup {<<q, Piece(PAWN, kp[2])>> : q \in kp[3]},
           QuietView) :
        kp \in {x \in SQUARES \X BOOLEAN \X PawnRows : x[1] \notin x[3]}}

\* a pawn of either colour on any square a pawn can stand on, with a row of
\* pawns of the other colour
PassedBoards ==
    {Board({<<pp[1], Piece(PAWN, pp[2])>>} \cup {<<q, Piece(PAWN, ~pp[2])>> : q \in pp[3]},
           QuietView) :
        pp \in {x \in PawnSquares \X BOOLEAN \X PawnRows : x[1] \notin x[3]}}

(***************************************************************************)
(* Initial states and specifications.                                      *)
(***************************************************************************)
IdleMove == MoveInit

IdleReaders == readers = [r \in ReaderIds |-> [run_id |-> UnknownId, events |-> "unset",
                                               seen |-> 0, yielded |-> <<>>,
                                               pc |-> "closed"]]

IdleRun ==
    /\ mode = "api"
    /\ num_games = 0
    /\ workers = 0
    /\ registry = {}
    /\ log = <<>>
    /\ task = <<>>
    /\ outcome = <<>>
    /\ finished = <<>>
    /\ taken = 0
    /\ pc = "off"
    /\ results_list = <<>>
    /\ acc = Acc0
    /\ report = None
    /\ disk = None
    /\ failure = "none"

\* a run about to be requested: BenchmarkRequest(num_games, workers), or
\* run_benchmark(num_games, workers) where workers=None stands for num_games
RunInit(max_games) ==
    /\ mode \in {"api", "batch"}
    /\ num_games \in 0..max_games
    /\ workers \in (0..MaxWorkers) \cup (IF mode = "batch" THEN {num_games} ELSE {})
    /\ registry = {}
    /\ log = <<>>
    /\ task = [i \in GameNums |-> "none"]
    /\ outcome = [i \in GameNums |-> None]
    /\ finished = <<>>
    /\ taken = 0
    /\ pc = "init"
    /\ results_list = <<>>
    /\ acc = Acc0
    /\ report = None
    /\ disk = None
    /\ failure = "none"

IdleGames ==
    /\ session = [g \in GameIds |-> NotPlayed]
    /\ engine = [g \in GameIds |-> NewEngine]

\* one game: benchmark.py's play_game, or play.py's with or without --retrieval
OneGameInit ==
    /\ \E runner \in {"benchmark", "play"}, use_retrieval \in BOOLEAN :
          /\ runner = "benchmark" => use_retrieval
          /\ session = [g \in GameIds |->
                       IF g = "g1" THEN NewGame(runner, use_retrieval) ELSE NotPlayed]
    /\ engine = [g \in GameIds |-> NewEngine]

\* the games of a benchmark run, each started by _run_single_game
GamesInit ==
    /\ session = [g \in GameIds |-> NewGame("benchmark", TRUE)]
    /\ engine = [g \in GameIds |-> NewEngine]

IdleEncoder ==
    /\ encBoard = Board({}, QuietView)
    /\ encoded = [c \in Callers |-> None]

EncoderInit ==
    /\ encBoard \in MiscBoards \cup ShieldBoards \cup PassedBoards
    /\ encoded = [c \in Callers |-> None]

ReaderInit ==
    readers \in [ReaderIds -> {[run_id |-> id, events |-> "unset", seen |-> 0,
                                yielded |-> <<>>, pc |-> "loop"] :
                                  id \in {RunId, UnknownId}}]

\* the shape of the state
TypeOK ==
    /\ board \in Positions
    /\ hits \in 0..MaxCalls /\ misses \in 0..MaxCalls
    /\ call.made \in BOOLEAN
    /\ mode \in {"api", "batch"}
    /\ num_games \in Nat /\ workers \in Nat
    /\ registry \subseteq {RunId}
    /\ \A k \in 1..Len(log) : log[k] \in
          {GameEvent(i, g) : i \in GameNums, g \in GameDicts}
          \cup {DoneEvent(ReportFile)}
          \cup {ErrorEvent(x) : x \in {"ValueError", "GameError", "ZeroDivisionError",
                                        "OSError"}}
    /\ task \in [GameNums -> {"none", "queued", "running", "returned", "raised"}]
    /\ \A i \in DOMAIN outcome : outcome[i] \in GameDicts \cup {None}
    /\ \A k \in 1..Len(finished) : finished[k] \in GameNums /\ Done(finished[k])
    /\ taken \in 0..Len(finished)
    /\ pc \in {"off", "init", "start", "collect", "unwind", "aggregate", "persist",
               "announce", "done", "crashed"}
    /\ \A i \in 1..Len(results_list) : results_list[i] \in GameDicts \cup {None}
    /\ acc.total_moves \in Nat
    /\ report = None \/ report.games = results_list
    /\ disk = None \/ disk.content = report
    /\ failure \in {"none", "ValueError", "GameError", "ZeroDivisionError", "OSError"}
    /\ \A r \in ReaderIds :
          /\ readers[r].run_id \in {RunId, UnknownId}
          /\ readers[r].events \in {"unset", "empty", "log"}
          /\ readers[r].seen \in 0..Len(log)
          /\ readers[r].pc \in {"loop", "closed"}
    /\ encBoard.piece_map \in [DOMAIN encBoard.piece_map ->
                                  {Piece(pt, color) : pt \in 1..6, color \in BOOLEAN}]
    /\ DOMAIN encBoard.piece_map \subseteq SQUARES
    /\ \A c \in Callers : encoded[c] = None \/ encoded[c].outcome \in {"return", "raise"}
    /\ \A g \in GameIds :
          /\ session[g].pc \in {"off", "loop", "answered", "after", "returned", "raised"}
          /\ session[g].board \in BoardStates
          /\ session[g].turn \in BOOLEAN
          /\ session[g].moves \in 0..MaxPly
          /\ session[g].pushed \in 0..MaxPly
          /\ session[g].move \in Moves \cup {None}
          /\ engine[g].hits \in 0..MaxPly /\ engine[g].misses \in 0..MaxPly

\* ---- SpecMove: one RetrievalEngine
InitMove == MoveInit /\ IdleRun /\ IdleReaders /\ IdleGames /\ IdleEncoder

NextMove == GetMove

SpecMove == InitMove /\ [][NextMove]_vars

\* ---- Spec: one benchmark run, API or batch
Init == IdleMove /\ RunInit(MaxGames) /\ IdleReaders /\ IdleGames /\ IdleEncoder

Next ==
    \/ \E i \in GameNums : TaskStart(i)
    \/ \E i \in GameNums : TaskReturn(i)
    \/ \E i \in GameNums : TaskRaise(i)
    \/ ApiSubmit
    \/ ApiOpenPool
    \/ ApiCollect
    \/ ApiLeavePool
    \/ ApiUnwind
    \/ ApiAggregate
    \/ ApiPersist
    \/ ApiAnnounce
    \/ BatchOpenPool
    \/ BatchCollect
    \/ BatchLeavePool
    \/ BatchUnwind
    \/ BatchAggregate
    \/ BatchPersist

Spec == Init /\ [][Next]_vars

\* ---- SpecGame: one game, over every kind of position
InitGame == IdleMove /\ IdleRun /\ IdleReaders /\ OneGameInit /\ IdleEncoder

NextGame ==
    \/ \E g \in GameIds : GameAsk(g)
    \/ \E g \in GameIds : GamePush(g, BoardStates)
    \/ \E g \in GameIds : GameOver(g)
    \/ \E g \in GameIds : GameReturn(g)

SpecGame == InitGame /\ [][NextGame]_vars

\* ---- SpecGames: the games of a run, side by side
InitGames == IdleMove /\ IdleRun /\ IdleReaders /\ GamesInit /\ IdleEncoder

NextGames ==
    \/ \E g \in GameIds : GameAsk(g)
    \/ \E g \in GameIds : GamePush(g, FewBoardStates)
    \/ \E g \in GameIds : GameOver(g)
    \/ \E g \in GameIds : GameReturn(g)

SpecGames == InitGames /\ [][NextGames]_vars

\* ---- SpecEncode: encode_board called on one board by the games of a run
InitEncode == IdleMove /\ IdleRun /\ IdleReaders /\ IdleGames /\ EncoderInit

NextEncode == \E c \in Callers : Encode(c)

SpecEncode == InitEncode /\ [][NextEncode]_vars

\* ---- SpecStream: one API run and its stream readers
InitStream ==
    IdleMove /\ RunInit(StreamGames) /\ mode = "api" /\ ReaderInit /\ IdleGames /\ IdleEncoder

NextStream ==
    \/ \E i \in GameNums : TaskStart(i)
    \/ \E i \in GameNums : StreamTaskReturn(i)
    \/ \E i \in GameNums : TaskRaise(i)
    \/ ApiSubmit
    \/ ApiOpenPool
    \/ ApiCollect
    \/ ApiLeavePool
    \/ ApiUnwind
    \/ ApiAggregate
    \/ ApiPersist
    \/ ApiAnnounce
    \/ \E r \in ReaderIds : ReaderYield(r)
    \/ \E r \in ReaderIds : ReaderPoll(r)

SpecStream == InitStream /\ [][NextStream]_vars

\* ---- SpecLive: one API run and its stream readers, followed to the end.
\* The generators of readers 1..LiveReaders are open; the others are not.
LiveReaderIds == 1..LiveReaders

\* the generators are interchangeable: those opened on the run's id are numbered
\* before those opened on an id that is never submitted
LiveReaderInit ==
    \E opened \in [LiveReaderIds -> {RunId, UnknownId}] :
        /\ \A r, q \in LiveReaderIds : (r < q /\ opened[q] = RunId) => opened[r] = RunId
        /\ readers = [r \in ReaderIds |->
                     IF r \in LiveReaderIds
                     THEN [run_id |-> opened[r], events |-> "unset", seen |-> 0,
                           yielded |-> <<>>, pc |-> "loop"]
                     ELSE [run_id |-> UnknownId, events |-> "unset", seen |-> 0,
                           yielded |-> <<>>, pc |-> "closed"]]

InitLive ==
    IdleMove /\ RunInit(LiveGames) /\ mode = "api" /\ LiveReaderInit /\ IdleGames /\ IdleEncoder

\* the steps of the thread `run`, from the pool's construction to the last append
ApiThread ==
    \/ ApiOpenPool
    \/ ApiCollect
    \/ ApiLeavePool
    \/ ApiUnwind
    \/ ApiAggregate
    \/ ApiPersist
    \/ ApiAnnounce

NextLive ==
    \/ \E i \in GameNums : TaskStart(i)
    \/ \E i \in GameNums : StreamTaskReturn(i)
    \/ \E i \in GameNums : TaskRaise(i)
    \/ ApiSubmit
    \/ ApiOpenPool
    \/ ApiCollect
    \/ ApiLeavePool
    \/ ApiUnwind
    \/ ApiAggregate
    \/ ApiPersist
    \/ ApiAnnounce
    \/ \E r \in ReaderIds : ReaderYield(r)
    \/ \E r \in ReaderIds : ReaderPoll(r)

\* Scheduling: a pool worker takes a queued game whenever one is free; every
\* game that runs ends, by returning or by raising; the started thread `run`
\* keeps running (threading.Thread(...).start()); the event loop resumes every
\* open generator after its sleep.  The POST request itself is the client's: a
\* run may never be submitted.
FairLive ==
    /\ WF_vars(\E i \in GameNums : TaskStart(i))
    /\ WF_vars(\E i \in GameNums : StreamTaskReturn(i) \/ TaskRaise(i))
    /\ WF_vars(ApiThread)
    /\ \A r \in LiveReaderIds : WF_vars(ReaderYield(r) \/ ReaderPoll(r))

SpecLive == InitLive /\ [][NextLive]_vars /\ FairLive

(***************************************************************************)
(* Properties of get_move (checked under SpecMove).                        *)
(***************************************************************************)
\* the index returned a top match at or above the threshold
Accepted(results) == results # <<>> /\ results[1].score >= Threshold

\* the move recorded in the top match
Recorded(results) == from_uci(results[1].best_move)

\* C1: for a position with at least one legal move, whatever the index returns
\* (nothing, a match below the threshold, an accepted match with a legal move,
\* an accepted match with an illegal move), get_move returns a move and that
\* move is one of the position's legal moves.
C1_ReturnsLegalMove ==
    (call.made /\ call.legal # {}) =>
        (call.outcome = "return" /\ call.move \in call.legal)

\* C1's case: an accepted match whose recorded move is illegal in a position
\* that has legal moves, answered with a legal move
C1_Witness ==
    /\ call.made
    /\ call.legal # {}
    /\ Accepted(call.results)
    /\ Recorded(call.results) \in Moves \ call.legal
    /\ call.outcome = "return"
    /\ call.move \in call.legal

\* C2: for a position with no legal move, get_move returns None (the no-move
\* signal) as a value and raises nothing, whatever the index returns.
C2_NoMoveSignal ==
    (call.made /\ call.legal = {}) =>
        (call.outcome = "return" /\ call.move = None)

\* C10: when the top match has similarity >= the threshold (equality included)
\* and its recorded move is legal in the position, get_move returns exactly that
\* move, hits grows by exactly 1 and misses is unchanged.
C10_HitReturnsRecordedMove ==
    (call.made /\ Accepted(call.results) /\ Recorded(call.results) \in call.legal) =>
        /\ call.outcome = "return"
        /\ call.move = Recorded(call.results)
        /\ hits = call.hits0 + 1
        /\ misses = call.misses0

\* C10's case: a match exactly at the threshold with a legal recorded move, in a
\* position with another legal move, on an engine that has already counted
C10_Witness ==
    /\ call.made
    /\ call.results # <<>>
    /\ call.results[1].score = Threshold
    /\ Recorded(call.results) \in call.legal
    /\ Cardinality(call.legal) >= 2
    /\ call.move = Recorded(call.results)
    /\ call.hits0 = 1
    /\ call.misses0 = 1
    /\ hits = 2
    /\ misses = 1

IsPrefix(s, t) == Len(s) <= Len(t) /\ SubSeq(t, 1, Len(s)) = s

IsGameEvent(e) == DOMAIN e = {"game", "result", "reason", "moves"}

IsSuccessEvent(e) == DOMAIN e = {"done", "filename"}

IsErrorEvent(e) == DOMAIN e = {"done", "error"}

Returned(i) == task[i] = "returned"

\* the orchestrator has ended, normally or by an exception
Ended == pc \in {"done", "crashed"}

\* the game numbers of the log's game events, in log order
GamesLogged == [k \in 1..Len(SelectSeq(log, IsGameEvent)) |->
                   SelectSeq(log, IsGameEvent)[k].game]

\* the games that returned a result, in the order they finished
GamesFinished == SelectSeq(finished, Returned)

EventsOf(i) == {k \in 1..Len(log) : IsGameEvent(log[k]) /\ log[k].game = i}

\* C3: whatever the order in which the N game tasks complete, the games array
\* of the final report has N entries and entry i is what the task submitted as
\* game i returned (game_num = Python index + 1), in the API run and in the
\* batch run alike.
C3_ReportInSubmissionOrder ==
    report # None =>
        /\ Len(report.games) = num_games
        /\ \A i \in GameNums : report.games[i] = outcome[i]

\* C3's case: the spec's example, games 0, 1, 2 completing in the order 2, 0, 1
\* (game numbers 3, 1, 2) with three different results, and a report built
C3_Witness ==
    /\ report # None
    /\ num_games = 3
    /\ finished = <<3, 1, 2>>
    /\ Cardinality({outcome[i] : i \in GameNums}) = 3
    /\ report.games = <<outcome[1], outcome[2], outcome[3]>>

\* C4: the log is completion-ordered: its game events are in the order in which
\* the games finished, each carries its game's own index and result, and every
\* game that finished has exactly one game event once the run has ended.
C4_CompletionOrderedLog ==
    mode = "api" =>
        /\ IsPrefix(GamesLogged, GamesFinished)
        /\ \A k \in 1..Len(log) :
              IsGameEvent(log[k]) => log[k] = GameEvent(log[k].game, outcome[log[k].game])
        /\ \A i \in GameNums : Cardinality(EventsOf(i)) <= 1
        /\ Ended => \A i \in GameNums : Returned(i) => Cardinality(EventsOf(i)) = 1

C6_GameFailureIsolated ==
    (Ended /\ \E i \in GameNums : task[i] = "raised") =>
        /\ mode = "api" => \E k \in 1..Len(log) : IsErrorEvent(log[k])
        /\ \A i \in GameNums : Returned(i) =>
              /\ mode = "api" => Cardinality(EventsOf(i)) = 1
              /\ report # None
              /\ report.games[i] = outcome[i]

\* C7: aggregation never divides by zero: a run of zero games (with a usable
\* pool) and a run whose hits + misses is zero both end without an exception
\* or error event, with a report whose affected averages and hit rate are 0.
C7_ZeroGuarded ==
    /\ (Ended /\ num_games = 0 /\ workers > 0) =>
          /\ failure = "none"
          /\ \A k \in 1..Len(log) : ~IsErrorEvent(log[k])
          /\ report # None
          /\ report.summary.avg_moves = 0
          /\ report.summary.avg_sunfish_ms = 0
          /\ report.summary.avg_retrieval_ms = 0
          /\ report.summary.hit_rate_pct = 0
    /\ (report # None /\ report.summary.total_hits + report.summary.total_misses = 0) =>
          report.summary.hit_rate_pct = 0

\* C13: for N >= 1 games and W >= 1 workers (W < N included), when no game
\* fails, the report has exactly N game entries and none is empty, in the API
\* run and in the batch run; and in the API run the success event is appended
\* only after the game events of all N games.
C13_AllGamesBeforeSuccess ==
    (num_games >= 1 /\ workers >= 1 /\ \A i \in GameNums : task[i] # "raised") =>
        /\ report # None =>
              /\ Len(report.games) = num_games
              /\ \A k \in 1..Len(report.games) : report.games[k] # None
        /\ \A k \in 1..Len(log) :
              IsSuccessEvent(log[k]) =>
                  \A i \in GameNums : \E j \in EventsOf(i) : j < k

\* C13's case: three games on two workers, none failed, the run announced
C13_Witness ==
    /\ mode = "api"
    /\ num_games = 3
    /\ workers = 2
    /\ \A i \in GameNums : task[i] = "returned"
    /\ pc = "done"
    /\ Len(log) = num_games + 1
    /\ IsSuccessEvent(log[Len(log)])
    /\ Len(report.games) = 3

\* what games 1..n returned, summed over one field of their dicts
RECURSIVE GameTotal(_, _)
GameTotal(f, n) == IF n = 0 THEN 0 ELSE outcome[n][f] + GameTotal(f, n - 1)

Distance(a, b) == IF a >= b THEN a - b ELSE b - a

\* C14: in the report of either run, total_hits is the sum of the games' hits,
\* total_misses the sum of the games' misses, and hit_rate_pct is
\* total_hits / (total_hits + total_misses) * 100 rounded to one decimal (the
\* nearest tenth of a percent), and 0 when that total is 0.
C14_TotalsAndHitRate ==
    report # None =>
        LET H == GameTotal("hits", num_games)
            M == GameTotal("misses", num_games)
            rate == report.summary.hit_rate_pct
        IN /\ report.summary.total_hits = H
           /\ report.summary.total_misses = M
           /\ H + M = 0 => rate = 0
           /\ H + M > 0 => 2 * Distance(rate * (H + M), 1000 * H) <= H + M

\* C14's case: two games with 2 hits and 1 miss between them, whose rate
\* 66.66.. is rounded up to 66.7
C14_Witness ==
    /\ report # None
    /\ num_games = 2
    /\ report.summary.total_hits = 2
    /\ report.summary.total_misses = 1
    /\ report.summary.hit_rate_pct = 667

\* the API run collected every game and then ended without a report file
FailedAfterGames ==
    /\ mode = "api"
    /\ pc = "done"
    /\ workers >= 1
    /\ taken = num_games
    /\ \A i \in GameNums : task[i] # "raised"
    /\ disk = None

\* C15: when building or writing the report fails, the run's log ends with an
\* error event that carries the failure's message and holds no success event;
\* and a success event is in the log only once the report file has been written,
\* and carries that file's name.
C15_LateFailureSurfaced ==
    /\ FailedAfterGames =>
          /\ log # <<>>
          /\ IsErrorEvent(log[Len(log)])
          /\ log[Len(log)].error =
                 (IF num_games = 0 THEN "ZeroDivisionError" ELSE "OSError")
          /\ \A k \in 1..Len(log) : ~IsSuccessEvent(log[k])
    /\ \A k \in 1..Len(log) :
          IsSuccessEvent(log[k]) =>
              /\ disk # None
              /\ disk.content = report
              /\ log[k].filename = disk.name

\* C15's case: two games were played and logged, the report was built, writing
\* it failed
C15_Witness ==
    /\ FailedAfterGames
    /\ num_games = 2
    /\ report # None
    /\ Len(log) = 3
    /\ IsGameEvent(log[2])
    /\ log[3] = ErrorEvent("OSError")

\* the orders in which the games of the run can complete
CompletionOrders ==
    {order \in [GameNums -> GameNums] : \A i, j \in GameNums : order[i] = order[j] => i = j}

\* run_benchmark's accumulators after the first k games of a completion order
RECURSIVE Accumulated(_, _)
Accumulated(order, k) ==
    IF k = 0 THEN Acc0
    ELSE Accumulate(Accumulated(order, k - 1), outcome[order[k]])

\* the games array after the first k games of a completion order
RECURSIVE Stored(_, _)
Stored(order, k) ==
    IF k = 0 THEN Blank(num_games)
    ELSE store_result(Stored(order, k - 1), order[k], k, outcome[order[k]])

\* what either orchestrator makes of the run's game results delivered in `order`
BatchOf(order) ==
    BatchReport(Accumulated(order, num_games), Stored(order, num_games), num_games, workers)

ApiOf(order) == ApiReport(Stored(order, num_games), num_games, workers)

OtherOrchestrator(order) == IF mode = "api" THEN BatchOf(order) ELSE ApiOf(order)

\* C23: the two orchestrators are equivalent: the report built by the API run or
\* by the batch run has the summary and the games array that the other
\* orchestrator builds from the same N >= 1 game results, in whatever order they
\* are delivered to it, games with the outcome "*" included.
C23_OrchestratorsAgree ==
    report # None =>
        \A order \in CompletionOrders :
            /\ OtherOrchestrator(order).summary = report.summary
            /\ OtherOrchestrator(order).games = report.games

Latencies == {"avg_sunfish_ms", "avg_retrieval_ms"}

WithoutLatencies(summary) == [f \in DOMAIN summary \ Latencies |-> summary[f]]

\* what does hold: the games arrays agree, the summaries agree in every field
\* but the two average latencies, and in those too for runs of up to two games
OrchestratorsAgreeApartFromLatencies ==
    report # None =>
        \A order \in CompletionOrders :
            /\ OtherOrchestrator(order).games = report.games
            /\ WithoutLatencies(OtherOrchestrator(order).summary) =
                  WithoutLatencies(report.summary)
            /\ num_games <= 2 => OtherOrchestrator(order).summary = report.summary

(***************************************************************************)
(* Properties of the log and its readers (checked under SpecStream).       *)
(***************************************************************************)
\* C8: the run's log is only ever appended to: in every step, by the
\* orchestrator, a game task or a stream reader, the log before the step is a
\* prefix of the log after it.
C8_LogAppendOnly == [][IsPrefix(log, log')]_vars

\* C8's case: the log holds two game events and the terminal event while one
\* reader is part-way through it and another has read it all
C8_Witness ==
    /\ Len(log) = 3
    /\ IsDone(log[3])
    /\ \E r, q \in ReaderIds :
          /\ Len(readers[r].yielded) = 1
          /\ readers[q].pc = "closed"

\* C9: every reader of the run yields only complete events, in log order with
\* none skipped or repeated (what it has yielded is a prefix of the log), and is
\* closed exactly when the last event it yielded is the terminal one; a reader
\* of another run id yields nothing.
C9_ReadersYieldLogPrefix ==
    \A r \in ReaderIds :
        LET rd == readers[r] IN
        /\ \A k \in 1..Len(rd.yielded) :
              \/ IsGameEvent(rd.yielded[k])
              \/ IsSuccessEvent(rd.yielded[k])
              \/ IsErrorEvent(rd.yielded[k])
        /\ IsPrefix(rd.yielded, log)
        /\ rd.run_id # RunId => rd.yielded = <<>>
        /\ \A k \in 1..Len(rd.yielded) : IsDone(rd.yielded[k]) => k = Len(rd.yielded)
        /\ rd.pc = "closed" <=> (rd.yielded # <<>> /\ IsDone(rd.yielded[Len(rd.yielded)]))

\* C9's case: two readers of the same run, one closed after yielding two game
\* events and the terminal event, the other still one event behind the log
C9_Witness ==
    /\ Len(log) = 3
    /\ \E r, q \in ReaderIds :
          /\ r # q
          /\ readers[r].run_id = RunId
          /\ readers[q].run_id = RunId
          /\ readers[r].pc = "closed"
          /\ readers[r].yielded = log
          /\ readers[q].pc = "loop"
          /\ Len(readers[q].yielded) = 2

(***************************************************************************)
(* Termination of a run and of its readers (checked under SpecLive).       *)
(***************************************************************************)
Submitted == RunId \in registry

TerminalLogged == log # <<>> /\ IsDone(log[Len(log)])

\* the generator has yielded a terminal event last and returned
ReadToTheEnd(r) ==
    /\ readers[r].pc = "closed"
    /\ readers[r].yielded # <<>>
    /\ IsDone(readers[r].yielded[Len(readers[r].yielded)])

\* C22: once a run is submitted (its game tasks all ending), a terminal event is
\* eventually appended to its log, and every open reader of that run eventually
\* yields the terminal event and returns; a reader whose run id has not been
\* submitted yields nothing and stays in its loop.
C22_RunAndReadersTerminate ==
    /\ Submitted ~>
          /\ TerminalLogged
          /\ \A r \in LiveReaderIds : readers[r].run_id = RunId => ReadToTheEnd(r)
    /\ [](\A r \in LiveReaderIds :
            readers[r].run_id \notin registry =>
                /\ readers[r].yielded = <<>>
                /\ readers[r].pc = "loop")

\* C22's case: the run's only game raised, the error event is the whole log, a
\* reader of the run has yielded it and returned, and a reader opened on a run
\* id that was never submitted has polled, holds the default list and is still
\* in its loop
C22_Witness ==
    /\ num_games = 1
    /\ task[1] = "raised"
    /\ Len(log) = 1
    /\ IsErrorEvent(log[1])
    /\ \E r, q \in LiveReaderIds :
          /\ readers[r].run_id = RunId
          /\ ReadToTheEnd(r)
          /\ readers[r].yielded = log
          /\ readers[q].run_id = UnknownId
          /\ readers[q].events = "empty"
          /\ readers[q].yielded = <<>>
          /\ readers[q].pc = "loop"

(***************************************************************************)
(* Properties of one game (checked under SpecGame).                        *)
(***************************************************************************)
\* the terminal predicates, in the order the reason is decided
TerminalPredicates(b) ==
    <<[name |-> "checkmate",    holds |-> is_checkmate(b)],
      [name |-> "stalemate",    holds |-> is_stalemate(b)],
      [name |-> "insufficient", holds |-> is_insufficient_material(b)],
      [name |-> "50-move",      holds |-> is_fifty_moves(b)],
      [name |-> "repetition",   holds |-> is_repetition(b)]>>

\* a terminal state: one of the five predicates holds
Terminal(b) ==
    \E k \in 1..Len(TerminalPredicates(b)) : TerminalPredicates(b)[k].holds

\* the loop of game g has been left
Stopped(g) == session[g].pc \in {"after", "returned", "raised"}

\* the last request of game g got no move
NoMoveYielded(g) ==
    /\ session[g].asked # <<>>
    /\ ~session[g].asked[Len(session[g].asked)].answered

Answered(g) ==
    Cardinality({k \in 1..Len(session[g].asked) : session[g].asked[k].answered})

\* what game g has done so far: the requests alternate, White's first; Sunfish
\* is asked on White's turn only (when `strict`) and the retrieval engine on
\* Black's only; no move is requested where `stop` holds of the position or
\* after a request that yielded no move; every move yielded is pushed and
\* nothing else is; and the loop is left only where `stop` holds or no move was
\* yielded
PlaysInTurn(g, strict, stop(_)) ==
    LET asked == session[g].asked IN
    /\ \A k \in 1..Len(asked) :
          /\ asked[k].turn = (IF k % 2 = 1 THEN WHITE ELSE BLACK)
          /\ strict => (asked[k].source = "sunfish" => asked[k].turn = WHITE)
          /\ asked[k].source = "retrieval" => asked[k].turn = BLACK
          /\ k < Len(asked) => asked[k].answered
    /\ (session[g].pc = "loop" /\ stop(session[g].board)) => ~ENABLED GameAsk(g)
    /\ session[g].pushed =
          Answered(g) - (IF session[g].pc = "answered" /\ session[g].move # None
                         THEN 1 ELSE 0)
    /\ Stopped(g) => stop(session[g].board) \/ NoMoveYielded(g)

\* once the loop of a game is left, nothing is requested or pushed in it
NothingAfterStop ==
    \A g \in GameIds :
        Stopped(g) => /\ session'[g].asked = session[g].asked
                      /\ session'[g].pushed = session[g].pushed
                      /\ session'[g].board = session[g].board

\* C17: within a game the players alternate ply by ply, Sunfish is asked only on
\* White's turn and the retrieval engine only on Black's, the loop stops at the
\* first ply at which a terminal predicate (checkmate, stalemate, insufficient
\* material, fifty-move rule, repetition) holds or a move source yields no
\* move, and nothing is requested or pushed after that.
C17_AlternateUntilTerminal ==
    /\ [](\A g \in GameIds : PlaysInTurn(g, TRUE, Terminal))
    /\ [][NothingAfterStop]_vars

\* what the loop does do: it stops where board.is_game_over() holds, which the
\* fifty-move count and a threefold repetition do not bring about, and play.py
\* without --retrieval asks Sunfish on both turns
AlternateUntilGameOver ==
    /\ [](\A g \in GameIds :
            PlaysInTurn(g, session[g].runner = "benchmark" \/ session[g].use_retrieval,
                        is_game_over))
    /\ [][NothingAfterStop]_vars

\* the reason the claim's order of predicates gives
RECURSIVE FirstHolding(_, _)
FirstHolding(preds, k) ==
    IF k > Len(preds) THEN "unknown"
    ELSE IF preds[k].holds THEN preds[k].name
    ELSE FirstHolding(preds, k + 1)

\* C18: the dict of a game that ended in a position without legal moves where
\* the checkmate predicate holds has reason "checkmate" and the result code of
\* a win for the side that is not to move; the reason is always the first of
\* checkmate, stalemate, insufficient material, fifty-move, repetition that
\* holds of the final position; and it is "unknown" exactly when the last
\* request yielded no move in a position where none of them holds.
C18_ReasonIsFirstPredicate ==
    \A g \in GameIds :
        (session[g].pc = "returned" /\ session[g].runner = "benchmark") =>
            LET b == session[g].board
                r == session[g].ret
            IN /\ (b.legal = {} /\ b.check) =>
                     /\ r.reason = "checkmate"
                     /\ r.result = (IF session[g].turn = BLACK THEN "1-0" ELSE "0-1")
               /\ r.reason = FirstHolding(TerminalPredicates(b), 1)
               /\ r.reason = "unknown" <=> (NoMoveYielded(g) /\ ~Terminal(b))

\* C18's case: Black, to move, has no legal move and is in check after three
\* moves were pushed
C18_Witness ==
    /\ session["g1"].pc = "returned"
    /\ session["g1"].runner = "benchmark"
    /\ session["g1"].pushed = 3
    /\ session["g1"].board.legal = {}
    /\ session["g1"].board.check
    /\ session["g1"].ret.reason = "checkmate"
    /\ session["g1"].ret.result = "1-0"

\* C21: the moves field of the dict a game returns equals the number of moves
\* pushed onto its board (each is written to the move record just before the
\* push), however the game ended, a move source yielding no move included.
C21_MovesCountsPushes ==
    \A g \in GameIds :
        (session[g].pc = "returned" /\ session[g].runner = "benchmark") =>
            session[g].ret.moves = session[g].pushed

\* what does hold: moves counts the requests made, so it is one more than the
\* pushes exactly when the last request yielded no move
MovesCountsRequests ==
    \A g \in GameIds :
        (session[g].pc = "returned" /\ session[g].runner = "benchmark") =>
            /\ session[g].ret.moves = Len(session[g].asked)
            /\ session[g].ret.moves =
                  session[g].pushed + (IF NoMoveYielded(g) THEN 1 ELSE 0)

(***************************************************************************)
(* Properties of the games of a run (checked under SpecGames).             *)
(***************************************************************************)
\* the get_move calls made in game g that came back
Calls(g) ==
    Cardinality({k \in 1..Len(session[g].asked) :
                    /\ session[g].asked[k].source = "retrieval"
                    /\ session[g].asked[k].answered})

\* C12: however the games of a run interleave, the counters of a game's engine
\* count that game's get_move calls only (hits + misses = the calls made in the
\* game), a step in which a game makes no request leaves its counters alone, and
\* the hits and misses of the dict a game returns are those of its own calls.
C12_CountersPerGame ==
    /\ [](\A g \in GameIds :
            /\ engine[g].hits + engine[g].misses = Calls(g)
            /\ session[g].pc = "returned" =>
                  /\ session[g].ret.hits = engine[g].hits
                  /\ session[g].ret.misses = engine[g].misses
                  /\ session[g].ret.hits + session[g].ret.misses = Calls(g))
    /\ [][\A g \in GameIds :
            session'[g].asked = session[g].asked => engine'[g] = engine[g]]_vars

\* C12's case: two games played side by side have returned, one with a hit and
\* a miss, the other with two misses
C12_Witness ==
    /\ session["g1"].pc = "returned"
    /\ session["g2"].pc = "returned"
    /\ session["g1"].ret.hits = 1
    /\ session["g1"].ret.misses = 1
    /\ session["g2"].ret.hits = 0
    /\ session["g2"].ret.misses = 2

PawnsOf(color) ==
    {sq \in DOMAIN encBoard.piece_map : encBoard.piece_map[sq] = Piece(PAWN, color)}

KingsOf(color) ==
    {sq \in DOMAIN encBoard.piece_map : encBoard.piece_map[sq] = Piece(KING, color)}

\* one file either side of square k, or its own file
Near(sq, k) == Distance(square_file(sq), square_file(k)) <= 1

\* q is r ranks ahead of k, in the colour's direction of advance
Ahead(q, k, color) ==
    IF color = WHITE THEN square_rank(q) - square_rank(k)
    ELSE square_rank(k) - square_rank(q)

\* the slot of colour `color` in a pair of slots starting at `first`
SlotOf(first, color) == IF color = WHITE THEN first ELSE first + 1

\* C19: the king-shield feature of a colour (slots 821 and 822) is the number
\* of that colour's pawns on the two ranks immediately in front of its king,
\* within one file either side of the king, divided by 6, wherever the king
\* stands.
C19_ShieldInFrontOfKing ==
    \A c \in Callers, color \in BOOLEAN : \A k \in KingsOf(color) :
        encoded[c] # None =>
            item(encoded[c], SlotOf(821, color)) =
                Ratio(Cardinality({q \in PawnsOf(color) :
                                      Near(q, k) /\ Ahead(q, k, color) \in {1, 2}}), 6)

\* C19 as the code has it: the pawns counted are those on the colour's second
\* and third ranks (rank indices 1, 2 for White and 6, 5 for Black), within one
\* file either side of the king's file, whatever rank the king is on.
C19_ShieldOnSecondAndThirdRank ==
    \A c \in Callers, color \in BOOLEAN : \A k \in KingsOf(color) :
        encoded[c] # None =>
            item(encoded[c], SlotOf(821, color)) =
                Ratio(Cardinality({q \in PawnsOf(color) :
                                      /\ Near(q, k)
                                      /\ square_rank(q) \in
                                            (IF color = WHITE THEN {1, 2} ELSE {6, 5})}), 6)

\* C19's case: Black's king on e5 with a black pawn behind it on d6; the pawn is
\* counted, 1/6
C19_Witness ==
    /\ encoded["g1"] # None
    /\ KingsOf(BLACK) = {36}
    /\ PawnsOf(BLACK) = {43}
    /\ item(encoded["g1"], 822) = Ratio(1, 6)

\* C20: the passed-pawn feature of a colour (slots 817 and 818) is the number
\* of that colour's pawns with no pawn of the other colour on the same or an
\* adjacent file on a rank strictly ahead of it (higher for White, lower for
\* Black), divided by 8.
C20_PassedPawnsLookAhead ==
    \A c \in Callers, color \in BOOLEAN :
        encoded[c] # None =>
            item(encoded[c], SlotOf(817, color)) =
                Ratio(Cardinality({q \in PawnsOf(color) :
                                      \A x \in PawnsOf(~color) :
                                          ~(Near(x, q) /\ Ahead(x, q, color) >= 1)}), 8)

\* what the scan does: for White it looks ahead; for Black it also looks at
\* every rank behind the pawn, so a black pawn counts only when no white pawn is
\* on the three files on any other rank
PassedPawnsAsScanned ==
    \A c \in Callers, color \in BOOLEAN :
        encoded[c] # None =>
            item(encoded[c], SlotOf(817, color)) =
                Ratio(Cardinality({q \in PawnsOf(color) :
                                      \A x \in PawnsOf(~color) :
                                          ~(/\ Near(x, q)
                                            /\ IF color = WHITE THEN Ahead(x, q, color) >= 1
                                               ELSE Ahead(x, q, color) # 0)}), 8)

====
